---- MODULE Spec2Model ----
(***************************************************************************)
(* papergobbler: record normalisation (entities/paper.py), dataset loading *)
(* (src/db.py) and TF-IDF search (src/search.py).                          *)
(*                                                                         *)
(* A Python str is a sequence of one-character strings; None-able values   *)
(* are records [some, v]; a raw JSON value is a record [t, s, n, l] whose  *)
(* tag t is its Python type.                                               *)
(***************************************************************************)
EXTENDS Integers, Sequences, FiniteSets, TLC

VARIABLES
    papers,     \* search: the list[Paper] handed to build_index
    index,      \* search: index[r] is run r's SearchIndex (or not built / raised)
    query,      \* search: query[r], the query of run r's last search_papers call
    klim,       \* search: klim[r], the k of that call
    out,        \* search: out[r], what that call returned
    doc,        \* load: the value json.load returned
    lpc,        \* load: position inside load_papers
    references, \* load: the list `references` of load_papers
    built,      \* load: the Papers constructed so far
    rawA, rawB, \* normalise: two raw dataset entries
    recA, recB, \* normalise: Paper.from_dict of each
    flat1, flat2,   \* flatten: two build_search_text calls on recA
    cpc,        \* concurrent search: cpc[t], thread t's position in search_papers
    clocal,     \* concurrent search: clocal[t], thread t's local variables
    collections,            \* ui: st.session_state["collections"]
    active_collection_id,   \* ui: st.session_state["active_collection_id"]
    selected_paper_id,      \* ui: st.session_state["selected_paper_id"]
    page,                   \* ui: st.session_state["page"]
    rerun,      \* ui: st.rerun() was called, the script runs again
    last_event, \* ui: the widget event of the last script run
    shown       \* ui: the collection whose items the last run's sidebar listed

vars == <<papers, index, query, klim, out, doc, lpc, references, built,
          rawA, rawB, recA, recB, flat1, flat2, cpc, clocal,
          collections, active_collection_id, selected_paper_id, page, rerun,
          last_event, shown>>

searchVars == <<papers, index, query, klim, out>>
loadVars == <<doc, lpc, references, built>>
normVars == <<rawA, rawB, recA, recB>>
flatVars == <<flat1, flat2>>
concVars == <<cpc, clocal>>
uiVars == <<collections, active_collection_id, selected_paper_id, page, rerun,
            last_event, shown>>
otherVars == <<flatVars, concVars, uiVars>>

--------------------------------------------------------------------------
(* Python str *)

\* the characters of the model, in code point order
Alphabet == <<" ", "!", "-", "0", "1", "2", "5", "8", "9",
              "A", "B", "X", "a", "b", "k", "x", "y", "z", "|">>
\* the upper case letters of the model and their lower case
UpperCs == <<"A", "B", "X">>
LowerCs == <<"a", "b", "x">>
\* [a-z] and [0-9] within the model's characters
AsciiLower == {"a", "b", "k", "x", "y", "z"}
AsciiDigit == {"0", "1", "2", "5", "8", "9"}

ord(c) == CHOOSE i \in DOMAIN Alphabet : Alphabet[i] = c

char_lower(c) ==
    IF \E i \in DOMAIN UpperCs : UpperCs[i] = c
    THEN LowerCs[CHOOSE i \in DOMAIN UpperCs : UpperCs[i] = c]
    ELSE c

lower(s) == [i \in DOMAIN s |-> char_lower(s[i])]

isspace(c) == c = " "

RECURSIVE lstrip(_)
lstrip(s) == IF s # <<>> /\ isspace(Head(s)) THEN lstrip(Tail(s)) ELSE s

RECURSIVE rstrip(_)
rstrip(s) ==
    IF s # <<>> /\ isspace(s[Len(s)]) THEN rstrip(SubSeq(s, 1, Len(s) - 1)) ELSE s

strip(s) == rstrip(lstrip(s))

RECURSIVE join(_, _)
join(sep, parts) ==
    IF parts = <<>> THEN <<>>
    ELSE IF Len(parts) = 1 THEN parts[1]
    ELSE parts[1] \o sep \o join(sep, Tail(parts))

DigitCs == <<"0", "1", "2", "3", "4", "5", "6", "7", "8", "9">>

RECURSIVE str_nat(_)
str_nat(n) == IF n < 10 THEN <<DigitCs[n + 1]>>
              ELSE str_nat(n \div 10) \o <<DigitCs[(n % 10) + 1]>>

\* str(n) of an int
str_int(n) == IF n < 0 THEN <<"-">> \o str_nat(-n) ELSE str_nat(n)

\* a < b of two str: lexicographic by code point
RECURSIVE str_lt(_, _)
str_lt(a, b) ==
    IF b = <<>> THEN FALSE
    ELSE IF a = <<>> THEN TRUE
    ELSE IF Head(a) = Head(b) THEN str_lt(Tail(a), Tail(b))
    ELSE ord(Head(a)) < ord(Head(b))

--------------------------------------------------------------------------
(* Optional values and raw JSON values *)

None == [some |-> FALSE, v |-> 0]
NoneStr == [some |-> FALSE, v |-> <<>>]
Some(x) == [some |-> TRUE, v |-> x]

RStr(s) == [t |-> "str", s |-> s, n |-> 0, l |-> <<>>]
RInt(n) == [t |-> "int", s |-> <<>>, n |-> n, l |-> <<>>]
RBool(b) == [t |-> "bool", s |-> <<>>, n |-> IF b THEN 1 ELSE 0, l |-> <<>>]
RNull == [t |-> "null", s |-> <<>>, n |-> 0, l |-> <<>>]
RList(l) == [t |-> "list", s |-> <<>>, n |-> 0, l |-> l]
\* dict.get(key) of a key the dict does not hold
RMissing == [t |-> "missing", s |-> <<>>, n |-> 0, l |-> <<>>]

\* isinstance(x, int): bool is a subclass of int
isinstance_int(x) == x.t \in {"int", "bool"}
isinstance_str(x) == x.t = "str"
isinstance_list(x) == x.t = "list"

--------------------------------------------------------------------------
(* entities/paper.py *)

\* hashlib.sha1(base).hexdigest(): a digest is the tagged hash input (no two
\* inputs of the model collide)
sha1_hexdigest(base) == <<"sha1:">> \o base

make_paper_id_nolower(title, year, authors) ==
    LET first_author == IF authors # <<>> THEN authors[1] ELSE <<>>
        yr == IF year.some /\ year.v # 0 THEN str_int(year.v) ELSE <<>>
    IN  sha1_hexdigest(strip(title) \o <<"|">> \o yr \o <<"|">> \o strip(first_author))

make_paper_id(title, year, authors) ==
    LET first_author == IF authors # <<>> THEN authors[1] ELSE <<>>
        \* f"{year or ''}"
        yr == IF year.some /\ year.v # 0 THEN str_int(year.v) ELSE <<>>
        base == lower(strip(title)) \o <<"|">> \o yr \o <<"|">>
                    \o lower(strip(first_author))
    IN  sha1_hexdigest(base)

\* raw.strip() or None if isinstance(raw, str) else None
opt_str(raw) ==
    IF isinstance_str(raw) /\ strip(raw.s) # <<>> THEN Some(strip(raw.s)) ELSE NoneStr

\* the loops over authors_list / keywords_list
RECURSIVE str_items(_)
str_items(l) ==
    IF l = <<>> THEN <<>>
    ELSE LET a == Head(l)
         IN  IF isinstance_str(a) /\ strip(a.s) # <<>>
             THEN <<strip(a.s)>> \o str_items(Tail(l))
             ELSE str_items(Tail(l))

from_dict(data) ==
    LET paper_id == IF isinstance_int(data.id) THEN data.id.n ELSE -1
        title == IF isinstance_str(data.title) THEN strip(data.title.s) ELSE <<>>
        \* int(raw_year) of a bool is 0 or 1
        year == IF isinstance_int(data.year) THEN Some(data.year.n) ELSE None
        authors == str_items(IF isinstance_list(data.authors) THEN data.authors.l ELSE <<>>)
        keywords == str_items(IF isinstance_list(data.keywords) THEN data.keywords.l ELSE <<>>)
    IN  [id |-> paper_id,
         paper_id |-> make_paper_id(title, year, authors),
         title |-> title,
         authors |-> authors,
         year |-> year,
         journal |-> opt_str(data.journal),
         abstract |-> opt_str(data.abstract),
         keywords |-> keywords,
         doi |-> opt_str(data.doi)]

--------------------------------------------------------------------------
(* src/search.py: text flattening and the TfidfVectorizer *)

Range(f) == {f[i] : i \in DOMAIN f}

RECURSIVE sum_over(_, _)
sum_over(f, S) ==
    IF S = {} THEN 0
    ELSE LET x == CHOOSE x \in S : TRUE IN f[x] + sum_over(f, S \ {x})

RECURSIVE sqrt_search(_, _, _)
sqrt_search(n, lo, hi) ==
    IF lo >= hi THEN lo
    ELSE LET mid == (lo + hi + 1) \div 2
         IN  IF mid <= n \div mid THEN sqrt_search(n, mid, hi)
             ELSE sqrt_search(n, lo, mid - 1)

\* floor of the square root
isqrt(n) == sqrt_search(n, 0, n)

\* x or "" of an optional str
or_empty(x) == IF x.some THEN x.v ELSE <<>>

\* mutant: the year is tested for truth, so year 0 is left out
build_search_text_falsy_year(paper) ==
    LET fields == << paper.title,
                     join(<<" ">>, paper.authors),
                     IF paper.year.some /\ paper.year.v # 0
                     THEN str_int(paper.year.v) ELSE <<>>,
                     or_empty(paper.journal),
                     or_empty(paper.abstract),
                     join(<<" ">>, paper.keywords),
                     or_empty(paper.doi) >>
    IN  lower(join(<<" ">>, fields))

build_search_text(paper) ==
    LET fields == << paper.title,
                     join(<<" ">>, paper.authors),
                     IF paper.year.some THEN str_int(paper.year.v) ELSE <<>>,
                     or_empty(paper.journal),
                     or_empty(paper.abstract),
                     join(<<" ">>, paper.keywords),
                     or_empty(paper.doi) >>
    IN  lower(join(<<" ">>, fields))

\* [a-z0-9]
is_token_char(c) == c \in AsciiLower \cup AsciiDigit

\* re.findall(r"[a-z0-9]+", s): the maximal runs, left to right
RECURSIVE re_findall(_, _, _)
re_findall(s, cur, acc) ==
    IF s = <<>> THEN (IF cur = <<>> THEN acc ELSE Append(acc, cur))
    ELSE IF is_token_char(Head(s)) THEN re_findall(Tail(s), Append(cur, Head(s)), acc)
    ELSE re_findall(Tail(s), <<>>, IF cur = <<>> THEN acc ELSE Append(acc, cur))

tokenize(text) == re_findall(lower(text), <<>>, <<>>)

\* the analyzer of TfidfVectorizer(lowercase=True, token_pattern=r"[a-z0-9]+",
\* ngram_range=(1, 2)): the tokens, then the pairs of adjacent tokens
analyze(text) ==
    LET toks == tokenize(text)
    IN  [i \in 1..Len(toks) |-> <<toks[i]>>]
            \o [i \in 1..(Len(toks) - 1) |-> <<toks[i], toks[i + 1]>>]

\* term -> number of occurrences, over the terms that occur
count_terms(terms) ==
    [t \in Range(terms) |-> Cardinality({i \in DOMAIN terms : terms[i] = t})]

\* 100 * ln(a / b), rounded, for the document counts of the model
ln_centi(a, b) ==
    CASE a = b -> 0
      [] a = 3 /\ b = 2 -> 41
      [] a = 4 /\ b = 2 -> 69
      [] a = 4 /\ b = 3 -> 29
      [] a = 5 /\ b = 2 -> 92
      [] a = 5 /\ b = 3 -> 51
      [] a = 5 /\ b = 4 -> 22
      [] a = 6 /\ b = 2 -> 110
      [] a = 6 /\ b = 3 -> 69
      [] a = 6 /\ b = 4 -> 41
      [] a = 6 /\ b = 5 -> 18

\* smooth idf, in hundredths: ln((1 + n) / (1 + df)) + 1
idf_centi(n, df) == 100 + ln_centi(1 + n, 1 + df)

\* l2 normalisation of a sparse row, in thousandths; a zero row stays zero
l2_normalize(row) ==
    LET norm == isqrt(sum_over([t \in DOMAIN row |-> row[t] * row[t]], DOMAIN row))
    IN  [t \in DOMAIN row |-> IF norm = 0 THEN 0 ELSE (row[t] * 1000) \div norm]

NoIndex == [state |-> "none", vocabulary |-> {}, idf |-> <<>>,
            doc_matrix |-> <<>>, papers |-> <<>>]

\* vectorizer.fit_transform(texts) raised ValueError("empty vocabulary; ...")
RaisedIndex == [state |-> "ValueError", vocabulary |-> {}, idf |-> <<>>,
                doc_matrix |-> <<>>, papers |-> <<>>]

build_index(ps) ==
    LET texts == [i \in DOMAIN ps |-> build_search_text(ps[i])]
        counts == [i \in DOMAIN ps |-> count_terms(analyze(texts[i]))]
        vocabulary == UNION {DOMAIN counts[i] : i \in DOMAIN ps}
        n == Len(ps)
        idf == [t \in vocabulary |->
                   idf_centi(n, Cardinality({i \in DOMAIN ps : t \in DOMAIN counts[i]}))]
    IN  IF vocabulary = {} THEN RaisedIndex
        ELSE [state |-> "built",
              vocabulary |-> vocabulary,
              idf |-> idf,
              doc_matrix |-> [i \in DOMAIN ps |->
                  l2_normalize([t \in DOMAIN counts[i] |-> counts[i][t] * idf[t]])],
              papers |-> ps]

\* index.vectorizer.transform([q]): terms outside the fitted vocabulary are dropped
transform(idx, q) ==
    LET counts == count_terms(analyze(q))
        known == DOMAIN counts \cap idx.vocabulary
    IN  l2_normalize([t \in known |-> counts[t] * idx.idf[t]])

\* linear_kernel(query_vector, doc_matrix).ravel()[i], in millionths
score(query_vector, row) ==
    LET common == DOMAIN query_vector \cap DOMAIN row
    IN  sum_over([t \in common |-> query_vector[t] * row[t]], common)

--------------------------------------------------------------------------
(* src/search.py: sorted() and search_papers *)

\* a sort key is a tuple of ints followed by a str
key_lt(a, b) ==
    \/ \E i \in DOMAIN a.nums :
          /\ a.nums[i] < b.nums[i]
          /\ \A j \in 1..(i - 1) : a.nums[j] = b.nums[j]
    \/ a.nums = b.nums /\ str_lt(a.text, b.text)

\* x goes after every element whose key is not greater than its own
insort(s, x) ==
    LET p == Cardinality({i \in DOMAIN s : ~key_lt(x.key, s[i].key)})
    IN  SubSeq(s, 1, p) \o <<x>> \o SubSeq(s, p + 1, Len(s))

\* sorted(items, key=...): stable
RECURSIVE sorted(_)
sorted(items) ==
    IF items = <<>> THEN <<>>
    ELSE insort(sorted(SubSeq(items, 1, Len(items) - 1)), items[Len(items)])

\* p.year or 0
year_or_0(p) == IF p.year.some THEN p.year.v ELSE 0

\* s[:k]
slice_to(s, k) ==
    IF k >= 0 THEN SubSeq(s, 1, IF k < Len(s) THEN k ELSE Len(s))
    ELSE SubSeq(s, 1, IF Len(s) + k > 0 THEN Len(s) + k ELSE 0)

RECURSIVE select_seq(_, _)
select_seq(s, keep) ==
    IF s = <<>> THEN <<>>
    ELSE (IF Head(s).idx \in keep THEN <<Head(s)>> ELSE <<>>) \o select_seq(Tail(s), keep)

papers_of(items) == [i \in DOMAIN items |-> items[i].paper]

scores_of(idx, q) ==
    LET query_vector == transform(idx, q)
    IN  [i \in DOMAIN idx.papers |-> score(query_vector, idx.doc_matrix[i])]

\* mutant: the empty-query key sorts years ascending
empty_query_items_year_asc(idx) ==
    [i \in DOMAIN idx.papers |->
        [key |-> [nums |-> << year_or_0(idx.papers[i]) >>,
                  text |-> lower(idx.papers[i].title)],
         idx |-> i, paper |-> idx.papers[i]]]

empty_query_items(idx) ==
    [i \in DOMAIN idx.papers |->
        [key |-> [nums |-> << -year_or_0(idx.papers[i]) >>,
                  text |-> lower(idx.papers[i].title)],
         idx |-> i, paper |-> idx.papers[i]]]

\* mutant: the ranking key compares titles without lowercasing them
ranked_items_raw_title(idx, scores) ==
    [i \in DOMAIN idx.papers |->
        [key |-> [nums |-> << -scores[i], -year_or_0(idx.papers[i]) >>,
                  text |-> idx.papers[i].title],
         idx |-> i, paper |-> idx.papers[i]]]

ranked_items(idx, scores) ==
    [i \in DOMAIN idx.papers |->
        [key |-> [nums |-> << -scores[i], -year_or_0(idx.papers[i]) >>,
                  text |-> lower(idx.papers[i].title)],
         idx |-> i, paper |-> idx.papers[i]]]

\* mutant: records with a zero score are kept
hits_nonnegative(scores) == {i \in DOMAIN scores : scores[i] >= 0}

\* the positions that pass `if scores[idx] > 0`
hits(scores) == {i \in DOMAIN scores : scores[i] > 0}

\* k is an optional int
search_papers(idx, qry, k) ==
    LET q == strip(qry)
    IN  IF q = <<>>
        THEN papers_of(sorted(empty_query_items(idx)))
        ELSE LET scores == scores_of(idx, q)
                 ranked == sorted(ranked_items(idx, scores))
                 results == papers_of(select_seq(ranked, hits(scores)))
             IN  IF k.some THEN slice_to(results, k.v) ELSE results

--------------------------------------------------------------------------
(* The search state machine: build_index once, then any number of          *)
(* search_papers calls on the index (app.py main).                         *)

MaxPapers == 3
MaxK == 2

RawEntry(id, title, year, authors) ==
    [id |-> id, title |-> title, year |-> year, journal |-> RMissing,
     abstract |-> RMissing, keywords |-> RMissing, doi |-> RMissing,
     authors |-> authors]

\* a dict without any of the keys
NoFields == RawEntry(RMissing, RMissing, RMissing, RMissing)

\* dataset entries of the search runs
SearchRaws ==
    << RawEntry(RInt(1), RStr(<<"B", " ", "x">>), RInt(2020), RMissing),
       RawEntry(RInt(2), RStr(<<"a", " ", "x">>), RInt(2018), RMissing),
       RawEntry(RInt(3), RStr(<<"a", " ", "x">>), RInt(2020), RMissing),
       RawEntry(RInt(4), RStr(<<" ", "a", " ", "x">>), RInt(2020), RMissing),
       RawEntry(RInt(5), RStr(<<"y">>), RMissing, RList(<<RStr(<<"k">>)>>)) >>

PaperPool == [i \in DOMAIN SearchRaws |-> from_dict(SearchRaws[i])]

\* lists of up to MaxPapers different pool entries
Corpora ==
    UNION {{[i \in 1..n |-> PaperPool[c[i]]] :
              c \in {d \in [1..n -> DOMAIN PaperPool] :
                        \A i, j \in 1..n : i # j => d[i] # d[j]}} : n \in 0..MaxPapers}

Queries == { <<>>, <<" ">>, <<"x">>, <<"y">>, <<" ", "A", " ", "x">>, <<"z">>, <<"!">> }

Limits == {None} \cup {Some(k) : k \in 0..MaxK}

Runs == {1, 2}

NotCalled == [called |-> FALSE, v |-> <<>>]
NoRecord == [called |-> FALSE, v |-> from_dict(NoFields)]
Returned(v) == [called |-> TRUE, v |-> v]

\* the threads that share the cached index
Threads == {1, 2}

\* search_papers' local variables before the call
NoLocals == [q |-> <<>>, query_vector |-> <<>>, scores |-> <<>>, ranked |-> <<>>]

ConcIdle ==
    /\ cpc = [t \in Threads |-> "idle"]
    /\ clocal = [t \in Threads |-> NoLocals]

FlatIdle ==
    /\ flat1 = NotCalled /\ flat2 = NotCalled

\* a script run that no widget triggered
NoEvent == [kind |-> "none", arg |-> <<>>]

\* init_state() on an empty session, before the first script run
init_state ==
    /\ collections = <<>>
    /\ active_collection_id = NoneStr
    /\ selected_paper_id = NoneStr
    /\ page = "search"
    /\ rerun = FALSE
    /\ last_event = NoEvent
    /\ shown = NoneStr

OtherIdle == FlatIdle /\ ConcIdle /\ init_state

LoadIdle ==
    /\ doc = [top |-> "idle", has_key |-> FALSE, rt |-> "missing", items |-> <<>>]
    /\ lpc = "idle"
    /\ references = <<>>
    /\ built = <<>>

NormIdle ==
    /\ rawA = NoFields /\ rawB = NoFields
    /\ recA = NoRecord /\ recB = NoRecord

Init ==
    /\ papers \in Corpora
    /\ index = [r \in Runs |-> NoIndex]
    /\ query = [r \in Runs |-> <<>>]
    /\ klim = [r \in Runs |-> None]
    /\ out = [r \in Runs |-> NotCalled]
    /\ LoadIdle
    /\ NormIdle
    /\ OtherIdle

\* cached_build_index(papers)
BuildIndex(r) ==
    /\ index[r].state = "none"
    /\ index' = [index EXCEPT ![r] = build_index(papers)]
    /\ UNCHANGED <<otherVars, papers, query, klim, out, loadVars, normVars>>

Reverse(s) == [i \in DOMAIN s |-> s[Len(s) + 1 - i]]

\* mutant: the second execution enumerates the records in another order
SearchPapersOrderPerRun(r, q, k) ==
    /\ index[r].state = "built"
    /\ query' = [query EXCEPT ![r] = q]
    /\ klim' = [klim EXCEPT ![r] = k]
    /\ out' = [out EXCEPT ![r] = Returned(
                  IF r = 1 THEN search_papers(index[r], q, k)
                  ELSE search_papers(build_index(Reverse(index[r].papers)), q, k))]
    /\ UNCHANGED <<otherVars, papers, index, loadVars, normVars>>

\* search_papers(index, q, k=k)
SearchPapers(r, q, k) ==
    /\ index[r].state = "built"
    /\ query' = [query EXCEPT ![r] = q]
    /\ klim' = [klim EXCEPT ![r] = k]
    /\ out' = [out EXCEPT ![r] = Returned(search_papers(index[r], q, k))]
    /\ UNCHANGED <<otherVars, papers, index, loadVars, normVars>>

Next ==
    \/ BuildIndex(1)
    \/ \E q \in Queries, k \in Limits : SearchPapers(1, q, k)

Spec == Init /\ [][Next]_vars

InitDet ==
    /\ papers \in Corpora
    /\ index = [r \in Runs |-> NoIndex]
    /\ \E q \in Queries : query = [r \in Runs |-> q]
    /\ klim = [r \in Runs |-> None]
    /\ out = [r \in Runs |-> NotCalled]
    /\ LoadIdle
    /\ NormIdle
    /\ OtherIdle

\* execution r's one search_papers(index, q, k) call
SearchOnce(r) ==
    /\ ~out[r].called
    /\ SearchPapers(r, query[r], klim[r])

NextDet == \E r \in Runs : BuildIndex(r) \/ SearchOnce(r)

SpecDet == InitDet /\ [][NextDet]_vars

--------------------------------------------------------------------------
(* src/db.py: load_papers, statement by statement                          *)

MaxRefs == 3

SearchIdle ==
    /\ papers = <<>>
    /\ index = [r \in Runs |-> NoIndex]
    /\ query = [r \in Runs |-> <<>>]
    /\ klim = [r \in Runs |-> None]
    /\ out = [r \in Runs |-> NotCalled]

DictItem(f) == [t |-> "dict", f |-> f]
OtherItem(t) == [t |-> t, f |-> NoFields]

\* entries of the `references` array: well-formed, malformed fields, not a dict
EntryPool ==
    { DictItem(RawEntry(RInt(1), RStr(<<"B", " ", "x">>), RInt(2020),
                        RList(<<RStr(<<"k">>)>>))),
      DictItem(RawEntry(RStr(<<"1">>), RInt(5), RStr(<<"2", "0", "2", "0">>),
                        RList(<<RNull, RStr(<<" ">>), RStr(<<" ", "k">>)>>))),
      DictItem(NoFields),
      OtherItem("str"),
      OtherItem("null") }

\* what json.load can return: top is the type of the document, has_key whether
\* a dict holds "references", rt the type of that value, items a list's elements
Documents ==
    {[top |-> t, has_key |-> FALSE, rt |-> "missing", items |-> <<>>] :
        t \in {"list", "str", "dict"}}
    \cup {[top |-> "dict", has_key |-> TRUE, rt |-> t, items |-> <<>>] :
        t \in {"null", "str", "dict"}}
    \cup UNION {{[top |-> "dict", has_key |-> TRUE, rt |-> "list", items |-> l] :
                    l \in [1..n -> EntryPool]} : n \in 0..MaxRefs}

InitLoad ==
    /\ doc \in Documents
    /\ lpc = "check_dict"
    /\ references = <<>>
    /\ built = <<>>
    /\ SearchIdle
    /\ NormIdle
    /\ OtherIdle

\* if not isinstance(raw, dict): raise ValueError
CheckDict ==
    /\ lpc = "check_dict"
    /\ lpc' = IF doc.top = "dict" THEN "check_key" ELSE "ValueError"
    /\ UNCHANGED <<otherVars, doc, references, built, searchVars, normVars>>

\* if "references" not in root: raise ValueError
CheckKey ==
    /\ lpc = "check_key"
    /\ lpc' = IF doc.has_key THEN "check_list" ELSE "ValueError"
    /\ UNCHANGED <<otherVars, doc, references, built, searchVars, normVars>>

\* mutant: a value that is no list is read as the empty list
CheckListLenient ==
    /\ lpc = "check_list"
    /\ lpc' = "validate"
    /\ UNCHANGED <<otherVars, doc, references, built, searchVars, normVars>>

\* if not isinstance(references_obj, list): raise ValueError
CheckList ==
    /\ lpc = "check_list"
    /\ lpc' = IF doc.rt = "list" THEN "validate" ELSE "ValueError"
    /\ UNCHANGED <<otherVars, doc, references, built, searchVars, normVars>>

\* mutant: an item that is no dict is skipped
ValidateItemSkipping ==
    /\ lpc = "validate"
    /\ Len(references) < Len(doc.items)
    /\ LET item == doc.items[Len(references) + 1]
       IN  references' = Append(references, IF item.t = "dict" THEN item
                                            ELSE DictItem(NoFields))
    /\ UNCHANGED <<otherVars, doc, lpc, built, searchVars, normVars>>

\* one turn of `for item in references_list`
ValidateItem ==
    /\ lpc = "validate"
    /\ Len(references) < Len(doc.items)
    /\ LET item == doc.items[Len(references) + 1]
       IN  IF item.t = "dict"
           THEN /\ references' = Append(references, item)
                /\ lpc' = lpc
           ELSE /\ references' = references
                /\ lpc' = "ValueError"
    /\ UNCHANGED <<otherVars, doc, built, searchVars, normVars>>

\* the loop ends; the list comprehension of the return statement starts
ValidateDone ==
    /\ lpc = "validate"
    /\ Len(references) = Len(doc.items)
    /\ lpc' = "construct"
    /\ UNCHANGED <<otherVars, doc, references, built, searchVars, normVars>>

\* one Paper.from_dict(item) of the list comprehension
Construct ==
    /\ lpc = "construct"
    /\ Len(built) < Len(references)
    /\ built' = Append(built, from_dict(references[Len(built) + 1].f))
    /\ UNCHANGED <<otherVars, doc, lpc, references, searchVars, normVars>>

\* return [...]
Return ==
    /\ lpc = "construct"
    /\ Len(built) = Len(references)
    /\ lpc' = "returned"
    /\ UNCHANGED <<otherVars, doc, references, built, searchVars, normVars>>

NextLoad ==
    \/ CheckDict
    \/ CheckKey
    \/ CheckList
    \/ ValidateItem
    \/ ValidateDone
    \/ Construct
    \/ Return

SpecLoad == InitLoad /\ [][NextLoad]_vars

--------------------------------------------------------------------------
(* entities/paper.py: Paper.from_dict applied to two raw dataset entries   *)

RawTitles == { RStr(<<" ", "A", "b">>), RStr(<<"a", "B", " ">>), RStr(<<"b">>), RInt(5) }

RawYears == { RInt(2015), RInt(0), RBool(TRUE), RMissing }

RawAuthors ==
    { RList(<<RStr(<<" ", "X", " ">>), RStr(<<"y">>)>>),
      RList(<<RInt(1), RStr(<<" ">>), RStr(<<"x">>), RStr(<<"x">>)>>),
      RStr(<<"x">>),
      RMissing }

\* the other fields of an entry: well-formed, blank or wrong-typed, missing
RawOthers ==
    { [id |-> RInt(7), journal |-> RStr(<<" ", "z", " ">>), abstract |-> RStr(<<"a", " ", "b">>),
       keywords |-> RList(<<RStr(<<" ", "k">>), RStr(<<>>), RNull, RStr(<<"k">>)>>),
       doi |-> RStr(<<"1", "-", "2">>)],
      [id |-> RBool(TRUE), journal |-> RStr(<<" ">>), abstract |-> RInt(1),
       keywords |-> RStr(<<"k">>), doi |-> RNull],
      [id |-> RMissing, journal |-> RMissing, abstract |-> RMissing,
       keywords |-> RMissing, doi |-> RMissing] }

NormRaws ==
    {[id |-> o.id, title |-> t, year |-> y, journal |-> o.journal,
      abstract |-> o.abstract, keywords |-> o.keywords, doi |-> o.doi,
      authors |-> a] :
        t \in RawTitles, y \in RawYears, a \in RawAuthors, o \in RawOthers}

InitNorm ==
    /\ rawA \in NormRaws
    /\ rawB \in NormRaws
    /\ recA = NoRecord
    /\ recB = NoRecord
    /\ SearchIdle
    /\ LoadIdle
    /\ OtherIdle

\* Paper.from_dict(rawA)
NormalizeA ==
    /\ ~recA.called
    /\ recA' = Returned(from_dict(rawA))
    /\ UNCHANGED <<otherVars, rawA, rawB, recB, searchVars, loadVars>>

\* Paper.from_dict(rawB), the next entry
NormalizeB ==
    /\ recA.called /\ ~recB.called
    /\ recB' = Returned(from_dict(rawB))
    /\ UNCHANGED <<otherVars, rawA, rawB, recA, searchVars, loadVars>>

NextNorm == NormalizeA \/ NormalizeB

SpecNorm == InitNorm /\ [][NextNorm]_vars

--------------------------------------------------------------------------
(* Claims about search_papers and build_index *)

Min(a, b) == IF a < b THEN a ELSE b

\* how often record p occurs in the list s
occurrences(s, p) == Cardinality({i \in DOMAIN s : s[i] = p})

\* the score search_papers computed for a record of the index
score_in(idx, qry, p) ==
    scores_of(idx, strip(qry))[CHOOSE i \in DOMAIN idx.papers : idx.papers[i] = p]

\* the tokens of the flattened texts of the index's records
corpus_tokens(idx) ==
    UNION {Range(tokenize(build_search_text(idx.papers[i]))) : i \in DOMAIN idx.papers}

unlimited_call(r) == out[r].called /\ ~klim[r].some

\* C1: with a limit k >= 0, search_papers returns the first min(k, n) elements
\* of the unlimited result for the same query, for every query, empty ones included
C1_LimitIsPrefixOfUnlimited ==
    \A r \in Runs :
        (out[r].called /\ klim[r].some /\ klim[r].v >= 0) =>
            LET full == search_papers(index[r], query[r], None)
            IN  out[r].v = SubSeq(full, 1, Min(klim[r].v, Len(full)))

\* C2: for a query that is non-empty after trimming, the result holds exactly
\* the records with a strictly positive score, each once, and adjacent results
\* are ordered by score descending, then year descending (absent as 0), then
\* lowercase title ascending
C2_RankedPositiveScores ==
    \A r \in Runs :
        (unlimited_call(r) /\ strip(query[r]) # <<>>) =>
            LET idx == index[r]
                res == out[r].v
                sc(p) == score_in(idx, query[r], p)
            IN  /\ \A i \in DOMAIN idx.papers :
                      occurrences(res, idx.papers[i]) =
                          Cardinality({j \in DOMAIN idx.papers :
                              /\ idx.papers[j] = idx.papers[i]
                              /\ scores_of(idx, strip(query[r]))[j] > 0})
                /\ \A i \in DOMAIN res : \E j \in DOMAIN idx.papers : idx.papers[j] = res[i]
                /\ \A i \in 1..(Len(res) - 1) :
                      LET a == res[i]
                          b == res[i + 1]
                      IN  \/ sc(a) > sc(b)
                          \/ sc(a) = sc(b) /\ year_or_0(a) > year_or_0(b)
                          \/ /\ sc(a) = sc(b)
                             /\ year_or_0(a) = year_or_0(b)
                             /\ ~str_lt(lower(b.title), lower(a.title))

C2_Witness ==
    /\ unlimited_call(1) /\ strip(query[1]) # <<>>
    /\ Len(index[1].papers) = 3
    /\ Len(out[1].v) = 2
    /\ \E i \in 1..1 :
          /\ score_in(index[1], query[1], out[1].v[i]) =
                 score_in(index[1], query[1], out[1].v[i + 1])
          /\ out[1].v[i].year = out[1].v[i + 1].year
          /\ str_lt(out[1].v[i + 1].title, out[1].v[i].title)

\* C3: for a query that is empty after trimming, the result is a permutation
\* of index.papers ordered by year descending (absent as 0), then lowercase
\* title ascending
C3_EmptyQueryAllByYearTitle ==
    \A r \in Runs :
        (unlimited_call(r) /\ strip(query[r]) = <<>>) =>
            LET idx == index[r]
                res == out[r].v
            IN  /\ Len(res) = Len(idx.papers)
                /\ \A i \in DOMAIN idx.papers :
                      occurrences(res, idx.papers[i]) = occurrences(idx.papers, idx.papers[i])
                /\ \A i \in 1..(Len(res) - 1) :
                      \/ year_or_0(res[i]) > year_or_0(res[i + 1])
                      \/ /\ year_or_0(res[i]) = year_or_0(res[i + 1])
                         /\ ~str_lt(lower(res[i + 1].title), lower(res[i].title))

C3_Witness ==
    /\ unlimited_call(1) /\ query[1] = <<" ">>
    /\ Len(out[1].v) = 3
    /\ out[1].v # index[1].papers
    /\ ~out[1].v[3].year.some
    /\ str_lt(out[1].v[2].title, out[1].v[1].title)

\* C4: build_index of an empty record sequence completes without error, and
\* search_papers on the index returns the empty list for every query
C4_EmptyCorpusBuildsAndSearches ==
    \A r \in Runs :
        (papers = <<>> /\ index[r].state # "none") =>
            /\ index[r].state = "built"
            /\ out[r].called => out[r].v = <<>>

\* C5: on an index built from at least one record, a query that is non-empty
\* after trimming and whose tokens occur in none of the flattened texts
\* returns the empty list, and the fitted index stays what build_index made
C5_UnknownTokensGiveEmpty ==
    \A r \in Runs :
        /\ index[r].state = "built" => index[r] = build_index(papers)
        /\ ( /\ out[r].called
             /\ Len(index[r].papers) >= 1
             /\ strip(query[r]) # <<>>
             /\ Range(tokenize(query[r])) \cap corpus_tokens(index[r]) = {} )
           => out[r].v = <<>>

C5_Witness ==
    /\ out[1].called /\ Len(index[1].papers) = 3
    /\ query[1] = <<"z">>
    /\ out[1].v = <<>>

\* the position in index.papers of a record of the result
position_in(idx, p) == CHOOSE i \in DOMAIN idx.papers : idx.papers[i] = p

\* records a and b tie on score, year and lowercase title
full_tie(idx, qry, a, b) ==
    /\ strip(qry) # <<>> => score_in(idx, qry, a) = score_in(idx, qry, b)
    /\ year_or_0(a) = year_or_0(b)
    /\ lower(a.title) = lower(b.title)

--------------------------------------------------------------------------
(* Claims about load_papers *)

load_ended == lpc \in {"returned", "ValueError"}

has_references_array == doc.top = "dict" /\ doc.has_key /\ doc.rt = "list"

all_items_dicts == \A i \in DOMAIN doc.items : doc.items[i].t = "dict"

\* the Records load_papers hands back: one per entry, in the order of the array
one_record_per_entry ==
    /\ lpc = "returned"
    /\ Len(built) = Len(doc.items)
    /\ \A i \in DOMAIN doc.items : built[i] = from_dict(doc.items[i].f)

C9_BadShapeIsFatal ==
    /\ (load_ended /\ ~has_references_array) => lpc = "ValueError"
    /\ lpc = "ValueError" => built = <<>>
    /\ built # <<>> => (has_references_array /\ all_items_dicts)

C9_Witness ==
    /\ lpc = "ValueError" /\ doc.top = "dict" /\ doc.has_key /\ doc.rt = "str"

--------------------------------------------------------------------------
(* Claims about Paper.from_dict and make_paper_id *)

\* the first element of a raw authors value that is a string and non-empty
\* after trimming, trimmed and lowercased; absent when there is none
first_retained_author(raw) ==
    LET l == IF raw.t = "list" THEN raw.l ELSE <<>>
        kept == {i \in DOMAIN l : l[i].t = "str" /\ strip(l[i].s) # <<>>}
    IN  IF kept = {} THEN NoneStr
        ELSE Some(lower(strip(l[CHOOSE i \in kept : \A j \in kept : i <= j].s)))

same_identity_fields(a, b) ==
    /\ a.title.t = "str" /\ b.title.t = "str"
    /\ lower(strip(a.title.s)) = lower(strip(b.title.s))
    /\ a.year = b.year
    /\ first_retained_author(a.authors) = first_retained_author(b.authors)

\* C6: two raw records with equal trimmed-lowercased titles, equal years and
\* equal trimmed-lowercased first retained authors get the same paper_id,
\* whatever their other fields hold
C6_SameContentSameId ==
    (recA.called /\ recB.called /\ same_identity_fields(rawA, rawB)) =>
        recA.v.paper_id = recB.v.paper_id

C6_Witness ==
    /\ recA.called /\ recB.called /\ same_identity_fields(rawA, rawB)
    /\ rawA.title # rawB.title
    /\ rawA.authors # rawB.authors
    /\ rawA.authors.t = "list" /\ rawB.authors.t = "list"
    /\ rawA.id # rawB.id /\ rawA.journal # rawB.journal
    /\ rawA.year = RInt(2015)
    /\ recA.v # recB.v

\* the strings of a raw list that are non-empty after trimming, trimmed, in
\* order; empty for a value that is no list
RECURSIVE kept_strings(_)
kept_strings(l) ==
    IF l = <<>> THEN <<>>
    ELSE kept_strings(SubSeq(l, 1, Len(l) - 1)) \o
            (IF l[Len(l)].t = "str" /\ strip(l[Len(l)].s) # <<>>
             THEN <<strip(l[Len(l)].s)>> ELSE <<>>)

expected_list(raw) == IF raw.t = "list" THEN kept_strings(raw.l) ELSE <<>>

expected_opt_str(raw) ==
    IF raw.t = "str" /\ strip(raw.s) # <<>> THEN Some(strip(raw.s)) ELSE NoneStr

\* what the claim says Paper.from_dict gives for a raw entry: an int is a JSON
\* integer, a boolean is of the wrong type
normalized_as_claimed(raw, rec) ==
    /\ rec.id = (IF raw.id.t = "int" THEN raw.id.n ELSE -1)
    /\ rec.title = (IF raw.title.t = "str" THEN strip(raw.title.s) ELSE <<>>)
    /\ rec.year = (IF raw.year.t = "int" THEN Some(raw.year.n) ELSE None)
    /\ rec.journal = expected_opt_str(raw.journal)
    /\ rec.abstract = expected_opt_str(raw.abstract)
    /\ rec.doi = expected_opt_str(raw.doi)
    /\ rec.authors = expected_list(raw.authors)
    /\ rec.keywords = expected_list(raw.keywords)

\* C7: Paper.from_dict gives every missing or wrong-typed field its default
\* (id -1, title "", year/journal/abstract/DOI absent, authors/keywords empty),
\* makes a blank optional string absent, and keeps exactly the trimmed
\* non-blank string elements of authors/keywords, in order
C7_MalformedFieldsTakeDefaults ==
    /\ recA.called => normalized_as_claimed(rawA, recA.v)
    /\ recB.called => normalized_as_claimed(rawB, recB.v)

--------------------------------------------------------------------------
(* C16: the hash input is injective on the normalized triple *)

\* (trimmed-lowercased title, year or absent, trimmed-lowercased first author
\* or absent) of a record
normalized_triple(rec) ==
    << lower(strip(rec.title)),
       rec.year,
       IF rec.authors # <<>> THEN Some(lower(strip(rec.authors[1]))) ELSE NoneStr >>

\* C16: two records whose normalized triples differ in any component, a year
\* of 0 against an absent year included, have different hash inputs and so
\* different paper_ids
C16_DifferentTriplesDifferentIds ==
    (recA.called /\ recB.called
        /\ normalized_triple(recA.v) # normalized_triple(recB.v)) =>
        recA.v.paper_id # recB.v.paper_id

--------------------------------------------------------------------------
(* The flatten runs: a dataset entry is normalised by Paper.from_dict and   *)
(* build_search_text is applied to the record twice (build_index calls it   *)
(* once per record each time the index is built).                           *)

InitFlat ==
    /\ rawA \in NormRaws
    /\ rawB = NoFields
    /\ recA = NoRecord /\ recB = NoRecord
    /\ FlatIdle
    /\ SearchIdle
    /\ LoadIdle
    /\ ConcIdle
    /\ init_state

\* build_search_text(recA), the first time
FlattenFirst ==
    /\ recA.called /\ ~flat1.called
    /\ flat1' = Returned(build_search_text(recA.v))
    /\ UNCHANGED <<flat2, normVars, searchVars, loadVars, concVars, uiVars>>

\* build_search_text(recA), again
FlattenSecond ==
    /\ flat1.called /\ ~flat2.called
    /\ flat2' = Returned(build_search_text(recA.v))
    /\ UNCHANGED <<flat1, normVars, searchVars, loadVars, concVars, uiVars>>

NextFlat == NormalizeA \/ FlattenFirst \/ FlattenSecond

SpecFlat == InitFlat /\ [][NextFlat]_vars

--------------------------------------------------------------------------
(* C12: the flattened text of a record *)

\* the decimal string of a year, or the empty string
decimal_or_empty(year) == IF year.some THEN str_int(year.v) ELSE <<>>

\* the seven fields in the claimed order, single spaces between them
seven_fields_text(rec) ==
    rec.title \o <<" ">> \o join(<<" ">>, rec.authors) \o <<" ">>
        \o decimal_or_empty(rec.year) \o <<" ">>
        \o or_empty(rec.journal) \o <<" ">>
        \o or_empty(rec.abstract) \o <<" ">>
        \o join(<<" ">>, rec.keywords) \o <<" ">>
        \o or_empty(rec.doi)

\* C12: build_search_text(record) is the lowercase of title, authors joined by
\* space, year as decimal string or empty, journal or empty, abstract or
\* empty, keywords joined by space and DOI or empty, joined by single spaces
\* in that order; a second application to the record gives the same string
C12_SevenFieldsLowercased ==
    /\ flat1.called => flat1.v = lower(seven_fields_text(recA.v))
    /\ flat2.called => flat2.v = flat1.v

\* every field is present, and lowercasing changes the text
C12_Witness ==
    /\ flat2.called
    /\ recA.v.year.some /\ recA.v.authors # <<>> /\ recA.v.keywords # <<>>
    /\ recA.v.journal.some /\ recA.v.abstract.some /\ recA.v.doi.some
    /\ flat1.v # seven_fields_text(recA.v)

--------------------------------------------------------------------------
(* Concurrent searches: st.cache_resource hands the one SearchIndex to     *)
(* every session, and each session's script thread runs search_papers on   *)
(* it. A thread executes search_papers statement by statement; statements  *)
(* of different threads interleave.                                        *)

\* the SearchIndex object that cached_build_index returns to every session
cached_index == index[1]

ConcQueries == { <<" ">>, <<"y">>, <<" ", "A", " ", "x">> }
ConcLimits == { None, Some(1) }

\* datasets of MaxPapers different pool entries, in the order of their ids
ConcCorpora ==
    {c \in Corpora : /\ Len(c) = MaxPapers
                     /\ \A i, j \in DOMAIN c : i < j => c[i].id < c[j].id}

InitConc ==
    /\ papers \in ConcCorpora
    /\ index = [r \in Runs |-> NoIndex]
    /\ query = [t \in Threads |-> <<>>]
    /\ klim = [t \in Threads |-> None]
    /\ out = [t \in Threads |-> NotCalled]
    /\ ConcIdle
    /\ FlatIdle
    /\ LoadIdle
    /\ NormIdle
    /\ init_state

\* thread t enters search_papers(index, q, k)
Call(t, q, k) ==
    /\ cached_index.state = "built"
    /\ cpc[t] \in {"idle", "done"}
    /\ query' = [query EXCEPT ![t] = q]
    /\ klim' = [klim EXCEPT ![t] = k]
    /\ out' = [out EXCEPT ![t] = NotCalled]
    /\ clocal' = [clocal EXCEPT ![t] = NoLocals]
    /\ cpc' = [cpc EXCEPT ![t] = "strip"]
    /\ UNCHANGED <<papers, index, flatVars, loadVars, normVars, uiVars>>

\* mutant: the empty-query branch sorts index.papers in place and returns it
StepStripSortInPlace(t) ==
    /\ cpc[t] = "strip"
    /\ LET q == strip(query[t])
           by_year == papers_of(sorted(empty_query_items(cached_index)))
       IN  IF q = <<>>
           THEN /\ index' = [index EXCEPT ![1].papers = by_year]
                /\ out' = [out EXCEPT ![t] = Returned(by_year)]
                /\ cpc' = [cpc EXCEPT ![t] = "done"]
                /\ UNCHANGED clocal
           ELSE /\ clocal' = [clocal EXCEPT ![t].q = q]
                /\ cpc' = [cpc EXCEPT ![t] = "transform"]
                /\ UNCHANGED <<index, out>>
    /\ UNCHANGED <<papers, query, klim, flatVars, loadVars, normVars, uiVars>>

\* q = query.strip(); if not q: return sorted(index.papers, key=...)
StepStrip(t) ==
    /\ cpc[t] = "strip"
    /\ LET q == strip(query[t])
       IN  IF q = <<>>
           THEN /\ out' = [out EXCEPT ![t] =
                              Returned(papers_of(sorted(empty_query_items(cached_index))))]
                /\ cpc' = [cpc EXCEPT ![t] = "done"]
                /\ UNCHANGED clocal
           ELSE /\ clocal' = [clocal EXCEPT ![t].q = q]
                /\ cpc' = [cpc EXCEPT ![t] = "transform"]
                /\ UNCHANGED out
    /\ UNCHANGED <<papers, index, query, klim, flatVars, loadVars, normVars, uiVars>>

\* query_vector = index.vectorizer.transform([q])
StepTransform(t) ==
    /\ cpc[t] = "transform"
    /\ clocal' = [clocal EXCEPT ![t].query_vector = transform(cached_index, clocal[t].q)]
    /\ cpc' = [cpc EXCEPT ![t] = "kernel"]
    /\ UNCHANGED <<searchVars, flatVars, loadVars, normVars, uiVars>>

\* scores = linear_kernel(query_vector, index.doc_matrix).ravel()
StepKernel(t) ==
    /\ cpc[t] = "kernel"
    /\ clocal' = [clocal EXCEPT ![t].scores =
                     [i \in DOMAIN cached_index.doc_matrix |->
                         score(clocal[t].query_vector, cached_index.doc_matrix[i])]]
    /\ cpc' = [cpc EXCEPT ![t] = "sort"]
    /\ UNCHANGED <<searchVars, flatVars, loadVars, normVars, uiVars>>

\* ranked = sorted(enumerate(index.papers), key=...)
StepSort(t) ==
    /\ cpc[t] = "sort"
    /\ clocal' = [clocal EXCEPT ![t].ranked =
                     sorted(ranked_items(cached_index, clocal[t].scores))]
    /\ cpc' = [cpc EXCEPT ![t] = "filter"]
    /\ UNCHANGED <<searchVars, flatVars, loadVars, normVars, uiVars>>

\* results = [paper for idx, paper in ranked if scores[idx] > 0]
\* return results[:k] if k is not None else results
StepFilter(t) ==
    /\ cpc[t] = "filter"
    /\ LET results == papers_of(select_seq(clocal[t].ranked, hits(clocal[t].scores)))
       IN  out' = [out EXCEPT ![t] = Returned(IF klim[t].some
                                               THEN slice_to(results, klim[t].v)
                                               ELSE results)]
    /\ cpc' = [cpc EXCEPT ![t] = "done"]
    /\ UNCHANGED <<papers, index, query, klim, clocal, flatVars, loadVars, normVars, uiVars>>

NextConc ==
    \/ BuildIndex(1)
    \/ \E t \in Threads, q \in ConcQueries, k \in ConcLimits : Call(t, q, k)
    \/ \E t \in Threads : StepStrip(t)
    \/ \E t \in Threads : StepTransform(t)
    \/ \E t \in Threads : StepKernel(t)
    \/ \E t \in Threads : StepSort(t)
    \/ \E t \in Threads : StepFilter(t)

SpecConc == InitConc /\ [][NextConc]_vars

--------------------------------------------------------------------------
(* C11: searches leave the shared index alone and do not disturb each other *)

\* C11: after any number of searches, in any interleaving of the threads'
\* statements, the shared index holds the same records in the same order and
\* the fitted model and document matrix it was built with, and every finished
\* invocation has returned what search_papers returns for its arguments when
\* it runs alone on that index
C11_SearchLeavesIndexAlone ==
    LET as_built == build_index(papers)
    IN  cached_index.state = "built" =>
            /\ cached_index = as_built
            /\ \A t \in Threads :
                  cpc[t] = "done" =>
                      /\ out[t].called
                      /\ out[t].v = search_papers(as_built, query[t], klim[t])

\* one thread has returned the records of an empty query, in another order
\* than the index holds them, while the other thread is between its scoring
\* and its sort
C11_Witness ==
    /\ cpc[1] = "done" /\ strip(query[1]) = <<>> /\ out[1].v # <<>>
    /\ out[1].v # cached_index.papers
    /\ cpc[2] = "sort" /\ \E i \in DOMAIN clocal[2].scores : clocal[2].scores[i] > 0

--------------------------------------------------------------------------
(* The Streamlit session: every widget event makes the script run once     *)
(* (app.py main: init_state, render_sidebar, then the page), and           *)
(* st.rerun() ends the run and starts another one with no event.           *)

\* Collection(id=cid, name=name); created_at is a timestamp nothing reads
Collection(id, name) == [id |-> id, name |-> name, paper_ids |-> <<>>]

\* what the user types into "New collection name"
UiNames == { <<"a">>, <<" ", "a">>, <<"b">>, <<" ">> }

\* the results of an earlier search, listed on the search page
UiResults == << PaperPool[1], PaperPool[2] >>
UiPaperIds == {UiResults[i].paper_id : i \in DOMAIN UiResults}

\* st.session_state as a record
session_state ==
    [collections |-> collections,
     active_collection_id |-> active_collection_id,
     selected_paper_id |-> selected_paper_id,
     page |-> page,
     rerun |-> rerun,
     shown |-> shown]

\* position of next((c for c in cols if c.id == id), None), 0 for None
find_by_id(cols, id) ==
    IF id.some /\ \E i \in DOMAIN cols : cols[i].id = id.v
    THEN CHOOSE i \in DOMAIN cols :
            /\ cols[i].id = id.v
            /\ \A j \in DOMAIN cols : cols[j].id = id.v => i <= j
    ELSE 0

\* position of the first collection of that name: names.index(name) and
\* next(c for c in collections if c.name == picked)
find_by_name(cols, name) ==
    CHOOSE i \in DOMAIN cols :
        /\ cols[i].name = name
        /\ \A j \in DOMAIN cols : cols[j].name = name => i <= j

\* a part of the script has run: the session state it left, and whether
\* st.rerun() ended the run there
Going(st) == [st |-> st, stop |-> FALSE]
Rerun(st) == [st |-> [st EXCEPT !.rerun = TRUE], stop |-> TRUE]

\* mutant: a collection is appended without looking for its id
sidebar_create_unchecked(st, ev) ==
    LET name == strip(ev.arg)
        cid == sha1_hexdigest(name)
    IN  IF ev.kind # "create" THEN Going(st)
        ELSE IF name = <<>> THEN Going(st)
        ELSE Rerun([st EXCEPT !.collections = Append(@, Collection(cid, name)),
                              !.active_collection_id = Some(cid)])

\* the "Create collection" form
sidebar_create(st, ev) ==
    LET name == strip(ev.arg)
        cid == sha1_hexdigest(name)
    IN  IF ev.kind # "create" THEN Going(st)
        ELSE IF name = <<>> THEN Going(st)
        ELSE IF \E i \in DOMAIN st.collections : st.collections[i].id = cid
             THEN Going(st)
        ELSE Rerun([st EXCEPT !.collections = Append(@, Collection(cid, name)),
                              !.active_collection_id = Some(cid)])

\* the selectbox shows the active collection unless the user picks another
\* name in this run
default_name(cols, active_id) ==
    LET a == find_by_id(cols, active_id)
    IN  IF a = 0 THEN cols[1].name ELSE cols[find_by_name(cols, cols[a].name)].name

\* the "Collections" selectbox: session_state takes the picked collection
sidebar_select(st, ev, active_id) ==
    LET picked == IF ev.kind = "pick" THEN ev.arg
                  ELSE default_name(st.collections, active_id)
        picked_col == st.collections[find_by_name(st.collections, picked)]
    IN  [st EXCEPT !.active_collection_id = Some(picked_col.id)]

\* the items of the collection whose id the run read when it began
sidebar_items(st, ev, active_id) ==
    LET a == find_by_id(st.collections, active_id)
    IN  IF a = 0 THEN Going(st)
        ELSE LET listed == [st EXCEPT !.shown = active_id]
                 paper_ids == st.collections[a].paper_ids
             IN  IF ev.kind = "open_active"
                 THEN Rerun([listed EXCEPT !.page = "collection"])
                 ELSE IF paper_ids = <<>> THEN Going(listed)
                 ELSE IF ev.kind = "open_item"
                         /\ \E i \in DOMAIN paper_ids : paper_ids[i] = ev.arg
                      THEN Rerun([listed EXCEPT !.selected_paper_id = Some(ev.arg),
                                                !.page = "collection"])
                 ELSE Going(listed)

render_sidebar(st, ev) ==
    LET active_id == st.active_collection_id
    IN  IF ev.kind = "nav_search" THEN Rerun([st EXCEPT !.page = "search"])
        ELSE LET created == sidebar_create(st, ev)
             IN  IF created.stop THEN created
                 ELSE IF created.st.collections = <<>> THEN created
                 ELSE sidebar_items(sidebar_select(created.st, ev, active_id),
                                    ev, active_id)

\* mutant: the identifier is appended without looking for it in the list
add_paper_unchecked(st, pid) ==
    LET a == find_by_id(st.collections, st.active_collection_id)
    IN  IF ~st.active_collection_id.some THEN Going(st)
        ELSE IF a = 0 THEN Going(st)
        ELSE Rerun([st EXCEPT !.collections[a].paper_ids = Append(@, pid)])

add_paper_to_active_collection(st, pid) ==
    LET a == find_by_id(st.collections, st.active_collection_id)
    IN  IF ~st.active_collection_id.some THEN Going(st)
        ELSE IF a = 0 THEN Going(st)
        ELSE IF \E i \in DOMAIN st.collections[a].paper_ids :
                   st.collections[a].paper_ids[i] = pid
             THEN Going(st)
        ELSE Rerun([st EXCEPT !.collections[a].paper_ids = Append(@, pid)])

\* the collection page of main
collection_page(st, ev) ==
    LET a == find_by_id(st.collections, st.active_collection_id)
    IN  IF a = 0 THEN Going(st)
        ELSE IF ev.kind = "open_paper"
                /\ \E i \in DOMAIN st.collections[a].paper_ids :
                      st.collections[a].paper_ids[i] = ev.arg
             THEN Rerun([st EXCEPT !.selected_paper_id = Some(ev.arg)])
        ELSE Going(st)

\* one run of the script for the event ev
main(st, ev) ==
    LET begun == [st EXCEPT !.rerun = FALSE, !.shown = NoneStr]
        sidebar == render_sidebar(begun, ev)
    IN  IF sidebar.stop THEN sidebar.st
        ELSE IF sidebar.st.page = "search"
             THEN (IF ev.kind = "add"
                   THEN add_paper_to_active_collection(sidebar.st, ev.arg).st
                   ELSE sidebar.st)
        ELSE collection_page(sidebar.st, ev).st

Event(kind, arg) == [kind |-> kind, arg |-> arg]

ScriptRun(ev) ==
    LET after == main(session_state, ev)
    IN  /\ collections' = after.collections
        /\ active_collection_id' = after.active_collection_id
        /\ selected_paper_id' = after.selected_paper_id
        /\ page' = after.page
        /\ rerun' = after.rerun
        /\ shown' = after.shown
        /\ last_event' = ev
        /\ UNCHANGED <<searchVars, loadVars, normVars, flatVars, concVars>>

\* the run that st.rerun() starts
RunAgain ==
    /\ rerun
    /\ ScriptRun(NoEvent)

\* the sidebar's "Search" button
NavSearch ==
    /\ ~rerun
    /\ ScriptRun(Event("nav_search", <<>>))

\* the form is submitted with a name
CreateCollection(name) ==
    /\ ~rerun
    /\ ScriptRun(Event("create", name))

\* another name is picked in the selectbox
SelectCollection(name) ==
    /\ ~rerun
    /\ \E i \in DOMAIN collections : collections[i].name = name
    /\ name # default_name(collections, active_collection_id)
    /\ ScriptRun(Event("pick", name))

\* the "name (count)" button that the last run listed
OpenActiveCollection ==
    /\ ~rerun
    /\ shown.some
    /\ ScriptRun(Event("open_active", <<>>))

\* the button of an item that the last run listed
OpenItem(pid) ==
    /\ ~rerun
    /\ shown.some
    /\ LET a == find_by_id(collections, shown)
       IN  \E i \in DOMAIN collections[a].paper_ids : collections[a].paper_ids[i] = pid
    /\ ScriptRun(Event("open_item", pid))

\* "Add to collection" of a listed result
AddPaper(pid) ==
    /\ ~rerun
    /\ page = "search"
    /\ ScriptRun(Event("add", pid))

\* a paper's button on the collection page
OpenPaper(pid) ==
    /\ ~rerun
    /\ page = "collection"
    /\ LET a == find_by_id(collections, active_collection_id)
       IN  /\ a # 0
           /\ \E i \in DOMAIN collections[a].paper_ids : collections[a].paper_ids[i] = pid
    /\ ScriptRun(Event("open_paper", pid))

InitUi ==
    /\ init_state
    /\ SearchIdle
    /\ LoadIdle
    /\ NormIdle
    /\ FlatIdle
    /\ ConcIdle

NextUi ==
    \/ RunAgain
    \/ NavSearch
    \/ \E name \in UiNames : CreateCollection(name)
    \/ \E name \in UiNames : SelectCollection(name)
    \/ OpenActiveCollection
    \/ \E pid \in UiPaperIds : OpenItem(pid)
    \/ \E pid \in UiPaperIds : AddPaper(pid)
    \/ \E pid \in UiPaperIds : OpenPaper(pid)

SpecUi == InitUi /\ [][NextUi]_vars

--------------------------------------------------------------------------
(* C14: the sidebar lists the items of the active collection *)

\* C14: when a run of render_sidebar has listed a collection's items, the
\* collection listed is the one whose id session_state active_collection_id
\* holds at the end of the run, also in the run in which the user picks
\* another collection in the selectbox
C14_ListedIsActive ==
    shown.some => shown = active_collection_id

--------------------------------------------------------------------------
(* C13: paper_ids is an ordered set *)

no_duplicates(s) == \A i, j \in DOMAIN s : s[i] = s[j] => i = j

contains(s, x) == \E i \in DOMAIN s : s[i] = x

\* the list only grows, at its end, by an identifier it does not hold
same_or_appended(old, new) ==
    \/ new = old
    \/ \E pid \in UiPaperIds : ~contains(old, pid) /\ new = Append(old, pid)

\* the run of an "Add to collection" click that must change nothing: no
\* collection is active, or the active one holds the paper already
add_without_effect ==
    /\ last_event'.kind = "add"
    /\ \/ ~active_collection_id.some
       \/ \E i \in DOMAIN collections :
             /\ collections[i].id = active_collection_id.v
             /\ contains(collections[i].paper_ids, last_event'.arg)

\* the run of an "Add to collection" click of a paper the active collection
\* does not hold
add_of_new_paper(i) ==
    /\ last_event'.kind = "add"
    /\ collections[i].id = active_collection_id.v
    /\ ~contains(collections[i].paper_ids, last_event'.arg)

\* what a run may do to the collections' paper_ids
paper_ids_step ==
    /\ \A i \in DOMAIN collections :
          /\ i \in DOMAIN collections'
          /\ collections'[i].id = collections[i].id
          /\ same_or_appended(collections[i].paper_ids, collections'[i].paper_ids)
          /\ add_of_new_paper(i) =>
                collections'[i].paper_ids =
                    Append(collections[i].paper_ids, last_event'.arg)
    /\ add_without_effect => collections' = collections

\* C13: over every sequence of add, create and select actions, no collection
\* holds an identifier twice and every collection keeps its identifiers in the
\* order in which they were first added (a run leaves paper_ids as it is or
\* appends one new identifier, the added paper's); adding a paper already
\* present, or adding with no active collection, leaves every collection
\* unchanged
C13_PaperIdsOrderedSet ==
    /\ [](\A i \in DOMAIN collections : no_duplicates(collections[i].paper_ids))
    /\ [][paper_ids_step]_vars

\* a collection holds two identifiers, and the last click added one of them again
C13_Witness ==
    /\ last_event.kind = "add"
    /\ ~rerun
    /\ \E i \in DOMAIN collections :
          /\ collections[i].id = active_collection_id.v
          /\ Len(collections[i].paper_ids) = 2
          /\ collections[i].paper_ids[1] = last_event.arg

--------------------------------------------------------------------------
(* C15: creating collections *)

\* a create attempt that must change nothing: the name is blank after
\* trimming, or it is (as typed or trimmed) the name of a collection
create_refused ==
    /\ last_event'.kind = "create"
    /\ \/ strip(last_event'.arg) = <<>>
       \/ \E i \in DOMAIN collections :
             collections[i].name \in {last_event'.arg, strip(last_event'.arg)}

create_successful ==
    /\ last_event'.kind = "create"
    /\ ~create_refused

\* what a create attempt does
create_step ==
    /\ create_refused =>
          /\ collections' = collections
          /\ active_collection_id' = active_collection_id
    /\ create_successful =>
          /\ Len(collections') = Len(collections) + 1
          /\ SubSeq(collections', 1, Len(collections)) = collections
          /\ collections'[Len(collections')].name = strip(last_event'.arg)
          /\ collections'[Len(collections')].paper_ids = <<>>
          /\ active_collection_id' = Some(collections'[Len(collections')].id)

\* C15: no two collections share an id or a name; a create attempt whose name
\* is blank after trimming or is an existing collection's name leaves the
\* collections list and active_collection_id unchanged, and a successful
\* attempt appends exactly one empty collection and makes it the active one
C15_CreateKeepsCollectionsDistinct ==
    /\ [](\A i, j \in DOMAIN collections :
            (collections[i].id = collections[j].id
                \/ collections[i].name = collections[j].name) => i = j)
    /\ [][create_step]_vars

\* two collections exist and the last attempt, a name that trims to an
\* existing one, was refused
C15_Witness ==
    /\ Len(collections) = 2
    /\ last_event.kind = "create"
    /\ ~rerun
    /\ last_event.arg # strip(last_event.arg)
    /\ \E i \in DOMAIN collections : collections[i].name = strip(last_event.arg)

====
